---- MODULE Spec2Model ----
(***************************************************************************)
(* State-machine model of redshift_mcp_server: the Query Executor          *)
(* (server.execute_query), the Result Formatter and Error Normalizer       *)
(* (util.format_query_results, util.get_error_detail) and the tool         *)
(* surface (run_query, explain_query, list_schemas, list_tables_in_schema, *)
(* test_redshift_connection).  The database driver (psycopg2) and the      *)
(* error-reporting collaborator (ctx.error) are the environment: every     *)
(* driver call either succeeds or raises, chosen nondeterministically.     *)
(*                                                                         *)
(* Conventions.  An optional Python value is a sequence of length 0 (None) *)
(* or 1 (the value).  A text is a sequence of fragments (characters or     *)
(* fixed literals); concatenation is \o.  A Python dict is the sequence of *)
(* its <<key, value>> pairs in insertion order.                            *)
(***************************************************************************)
EXTENDS Integers, Sequences, FiniteSets, TLC

\* ------------------------------------------------------------------ bounds
MaxLen == 1
MaxRows == 1
MaxTime == 1

\* ----------------------------------------------------------- optional values
None == <<>>
Some(x) == <<x>>
IsNone(o) == Len(o) = 0
IsSome(o) == Len(o) = 1
Get(o) == o[1]

\* ------------------------------------------------------------------- texts
Whitespace == {" "}
Alphabet == {" ", "a"}

RECURSIVE SeqsUpTo(_, _)
SeqsUpTo(S, n) ==
    IF n = 0 THEN {<<>>}
    ELSE LET shorter == SeqsUpTo(S, n - 1)
         IN  shorter \cup {Append(s, x) : s \in {t \in shorter : Len(t) = n - 1}, x \in S}

Texts == SeqsUpTo(Alphabet, MaxLen)

\* str.lstrip() / str.rstrip() / str.strip(): drop leading and trailing whitespace
RECURSIVE lstrip(_)
lstrip(s) == IF Len(s) > 0 /\ Head(s) \in Whitespace THEN lstrip(Tail(s)) ELSE s

RECURSIVE rstrip(_)
rstrip(s) ==
    IF Len(s) > 0 /\ s[Len(s)] \in Whitespace THEN rstrip(SubSeq(s, 1, Len(s) - 1)) ELSE s

strip(s) == rstrip(lstrip(s))

\* Python truthiness of a str: the empty string is falsy
Truthy(s) == Len(s) > 0

\* `not x or not x.strip()`: the blank-input test of execute_query and list_tables_in_schema
IsBlank(s) == (~Truthy(s)) \/ (~Truthy(strip(s)))

\* substring test on fragment sequences: `needle in haystack`
Contains(haystack, needle) ==
    \E i \in 0..(Len(haystack) - Len(needle)) :
        SubSeq(haystack, i + 1, i + Len(needle)) = needle

\* ------------------------------------------------------------- exceptions
\* An exception value: its class name, the base class the handlers test with
\* isinstance ("psycopg2.Error", "ValueError" or plain "Exception"), str(e),
\* and the two optional attributes read by get_error_detail.  An attribute is
\* None (absent), Some(None) (present, null) or Some(Some(text)); diag, when an
\* object, holds its message_detail attribute in the same encoding.
Exc(cls, base, text) ==
    [cls |-> cls, base |-> base, str |-> text, pgerror |-> None, diag |-> None]

PgError(cls, pgerror, message_detail, text) ==
    [cls |-> cls, base |-> "psycopg2.Error", str |-> text,
     pgerror |-> Some(pgerror), diag |-> Some(Some(Some(message_detail)))]

ValueError(msg) == Exc("ValueError", "ValueError", msg)

IsValueError(e) == e.base = "ValueError"
IsPsycopg2Error(e) == e.base = "psycopg2.Error"

\* errors the driver raises (psycopg2.Error subclasses, as psycopg2 builds them)
DriverErrors ==
    { PgError("ProgrammingError", Some(<<"ERROR: syntax error">>), None, <<"syntax error">>),
      PgError("IntegrityError", None, Some(<<"Key (id)=(1) already exists.">>), <<"duplicate key">>),
      PgError("OperationalError", None, None, <<"connection refused">>) }

\* other exceptions a call into the driver or the formatter can raise
OtherErrors ==
    { Exc("TypeError", "Exception", <<"unsupported operand">>),
      Exc("UnicodeDecodeError", "ValueError", <<"invalid start byte">>) }

AllErrors == DriverErrors \cup OtherErrors

\* one error of each base class, for the calls whose handlers look at the class only
SiteErrors == {e \in AllErrors : e.cls \in {"OperationalError", "TypeError", "UnicodeDecodeError"}}

\* util.get_error_detail: [raises, value]; raises is the AttributeError of
\* `e.diag.message_detail` on a null diag or a diag without that attribute
get_error_detail(e) ==
    IF IsSome(e.pgerror) /\ IsSome(Get(e.pgerror)) /\ Truthy(Get(Get(e.pgerror)))
    THEN [raises |-> FALSE, value |-> Get(Get(e.pgerror))]
    ELSE IF IsSome(e.diag)
    THEN IF IsNone(Get(e.diag)) \/ IsNone(Get(Get(e.diag)))
         THEN [raises |-> TRUE, value |-> <<>>]
         ELSE LET message_detail == Get(Get(Get(e.diag)))
              IN  IF IsSome(message_detail) /\ Truthy(Get(message_detail))
                  THEN [raises |-> FALSE, value |-> Get(message_detail)]
                  ELSE [raises |-> FALSE, value |-> e.str]
    ELSE [raises |-> FALSE, value |-> e.str]

AttributeError == Exc("AttributeError", "Exception", <<"object has no attribute">>)

\* ------------------------------------------------------------- Python dict
\* d[k] = v: an existing key keeps its position and takes the new value
DictSet(d, k, v) ==
    IF \E i \in 1..Len(d) : d[i][1] = k
    THEN [i \in 1..Len(d) |-> IF d[i][1] = k THEN <<k, v>> ELSE d[i]]
    ELSE Append(d, <<k, v>>)

\* dict(zip(keys, vals)): pairs are inserted left to right, up to the shorter length
RECURSIVE DictZipFrom(_, _, _, _)
DictZipFrom(d, keys, vals, i) ==
    IF i > Len(keys) \/ i > Len(vals) THEN d
    ELSE DictZipFrom(DictSet(d, keys[i], vals[i]), keys, vals, i + 1)

DictZip(keys, vals) == DictZipFrom(<<>>, keys, vals, 1)

\* list(d.keys())
Keys(d) == [i \in 1..Len(d) |-> d[i][1]]

\* ------------------------------------------------------ Result Formatter
\* util.format_query_results, given cursor.description (a sequence of
\* descriptor tuples whose first item is the column name) and the tuples
\* cursor.fetchall() returned: <<results, column_names>>
format_query_results(description, fetched) ==
    LET column_names == [i \in 1..Len(description) |-> description[i][1]]
        results == [r \in 1..Len(fetched) |-> DictZip(column_names, fetched[r])]
    IN  <<results, column_names>>

\* models.QueryResult
QueryResult(rows, column_names, affected_rows, execution_time) ==
    [rows |-> rows, column_names |-> column_names,
     affected_rows |-> affected_rows, execution_time |-> execution_time]

\* ------------------------------------------------- what the driver returns
Values == {1, 2}
RowCounts == {-1, 3}
Versions == {"Redshift 1.0"}

\* cursor.description after a successful execute: None, or one descriptor
\* tuple per column (possibly none, possibly with repeated names)
DescriptorNames == {<<>>, <<"id">>, <<"id", "name">>, <<"id", "id">>}
Descriptions ==
    {None} \cup {Some([i \in 1..Len(names) |-> <<names[i]>>]) : names \in DescriptorNames}

\* the tuples fetchall() returns for a descriptor of n columns
Tuples(n) == {t \in SeqsUpTo(Values, n) : Len(t) = n}
Fetched(n) == SeqsUpTo(Tuples(n), MaxRows)

\* Python truthiness of cursor.description
DescriptionTruthy(description) == IsSome(description) /\ Len(Get(description)) > 0

\* ---------------------------------------------------------- fixed texts
ExplainPrefix == <<"E", "X", "P", "L", "A", "I", "N", " ">>
ListSchemasQuery ==
    <<"\n", "SELECT schema_name, schema_owner FROM information_schema.schemata ORDER BY schema_name", "\n">>
ListTablesHead ==
    <<"\n", "SELECT table_name, table_type, table_schema FROM information_schema.tables WHERE table_schema = ">>
ListTablesTail == <<" ORDER BY table_name", "\n">>
VersionProbe == <<"SELECT version();">>

EmptyQueryMsg == <<"Empty query provided">>
EmptySchemaMsg == <<"Empty schema name provided">>
QueryFailedPrefix == <<"Query execution failed: ">>
ErrorDuringPrefix == <<"Error during query execution: ">>
ConnectionTestFailedPrefix == <<"Connection test failed: ">>

\* sql.Literal(schema_name) rendered by query.as_string(conn): the text in
\* single quotes, embedded quotes doubled
RECURSIVE EscapeQuotes(_)
EscapeQuotes(s) ==
    IF Len(s) = 0 THEN <<>>
    ELSE (IF Head(s) = "'" THEN <<"'", "'">> ELSE <<Head(s)>>) \o EscapeQuotes(Tail(s))

as_string(schema_name) ==
    ListTablesHead \o <<"'">> \o EscapeQuotes(schema_name) \o <<"'">> \o ListTablesTail

\* ---------------------------------------------------------------- startup
DefaultPort == 5439

\* os.environ: each variable is unset (None) or set to a string; the port is
\* kept as its characters because int() reads them
Required == {"REDSHIFT_HOST", "REDSHIFT_DATABASE", "REDSHIFT_USER", "REDSHIFT_PASSWORD"}

PortTexts == {<<>>, <<"5", "4", "4", "0">>, <<"a", "b", "c">>}

Envs ==
    [REDSHIFT_HOST     : {None, Some(""), Some("h")},
     REDSHIFT_PORT     : {None} \cup {Some(t) : t \in PortTexts},
     REDSHIFT_DATABASE : {None, Some(""), Some("d")},
     REDSHIFT_USER     : {None, Some(""), Some("u")},
     REDSHIFT_PASSWORD : {None, Some(""), Some("p")}]

ServedEnv ==
    [REDSHIFT_HOST |-> Some("h"), REDSHIFT_PORT |-> None, REDSHIFT_DATABASE |-> Some("d"),
     REDSHIFT_USER |-> Some("u"), REDSHIFT_PASSWORD |-> Some("p")]

\* os.environ.get(name): None or the string; truthy when set and not ""
EnvTruthy(v) == IsSome(v) /\ Get(v) # ""

\* os.environ.get("REDSHIFT_PORT", 5439): the string that is set, or the int 5439
PortOf(env) ==
    IF IsSome(env.REDSHIFT_PORT)
    THEN [type |-> "str", text |-> Get(env.REDSHIFT_PORT), value |-> 0]
    ELSE [type |-> "int", text |-> <<>>, value |-> DefaultPort]

Digits == <<"0", "1", "2", "3", "4", "5", "6", "7", "8", "9">>
IsDigit(c) == \E d \in 1..Len(Digits) : Digits[d] = c
DigitValue(c) == (CHOOSE d \in 1..Len(Digits) : Digits[d] = c) - 1

RECURSIVE Decimal(_, _)
Decimal(text, acc) ==
    IF Len(text) = 0 THEN acc ELSE Decimal(Tail(text), 10 * acc + DigitValue(Head(text)))

\* int(port): an int is returned as it is, a string of decimal digits is read,
\* any other string raises ValueError
int(port) ==
    IF port.type = "int"
    THEN [raises |-> FALSE, value |-> port.value, exc |-> None]
    ELSE IF Len(port.text) > 0 /\ \A i \in 1..Len(port.text) : IsDigit(port.text[i])
         THEN [raises |-> FALSE, value |-> Decimal(port.text, 0), exc |-> None]
         ELSE [raises |-> TRUE, value |-> 0,
               exc |-> Some(ValueError(<<"invalid literal for int() with base 10: '">>
                                           \o port.text \o <<"'">>))]

\* lines 76-82: RedshiftConnectionConfig(host, int(port), database, user, password)
ConfigFrom(env) ==
    [host |-> Get(env.REDSHIFT_HOST), port |-> int(PortOf(env)).value,
     database |-> Get(env.REDSHIFT_DATABASE), user |-> Get(env.REDSHIFT_USER),
     password |-> Get(env.REDSHIFT_PASSWORD)]

MissingParametersMsg == <<"Missing Redshift connection parameters. Set the following environment variables: REDSHIFT_HOST, REDSHIFT_DATABASE, REDSHIFT_USER, REDSHIFT_PASSWORD">>

ConnectionTestFailedAtStartupPrefix == <<"Redshift connection test failed: ">>

ConnectionError(msg) == Exc("ConnectionError", "Exception", msg)

\* ------------------------------------------------------------------ state
VARIABLES
    redshift_config,   \* server.redshift_config, the process-wide configuration
    now,               \* the wall clock read by time.time()
    conns,             \* the connections opened by the calls in flight, by handle
    inv,               \* the tool invocations: position, locals, outcome
    last_ts,           \* timestamp of the latest successful test_redshift_connection
    boot,              \* the process from module load to mcp.run: position, environment, probe
    detail_call        \* one call of get_error_detail: its argument and its outcome

vars == <<redshift_config, now, conns, inv, last_ts, boot, detail_call>>

Procs == {"t1"}

\* the configuration of the process the tools run in: the one startup builds
\* from ServedEnv
Config == ConfigFrom(ServedEnv)

NoCursor == [description |-> None, fetched |-> <<>>, rowcount |-> -1]

\* an invocation before its tool is called
IdleInv ==
    [pc |-> "idle", tool |-> "none", arg |-> <<>>,
     query |-> <<>>,          \* the statement handed to execute_query
     submitted |-> <<>>,      \* the statements execute_query was called with, in order
     start_time |-> 0,
     conn |-> None,           \* execute_query's conn
     tconn |-> None,          \* the tool's own conn (list_tables_in_schema, test_redshift_connection)
     cursor |-> NoCursor,     \* the cursor after execute
     exc |-> None,            \* the exception in flight, or raised to the caller at "done"
     result |-> None,         \* the QueryResult execute_query returns
     rows_out |-> None,       \* the rows a query tool returns
     status_out |-> None,     \* the dict test_redshift_connection returns
     errors |-> <<>>,         \* the messages given to ctx.error
     create_calls |-> 0,      \* calls of create_connection
     opened |-> 0,            \* connections obtained
     prev_ts |-> None,        \* last_ts when this call returned
     faults |-> <<>>]         \* the driver calls that raised, in order: <<site, exception>>

\* a connection as psycopg2.connect returns it; users: the invocations that have
\* executed on it or closed it
Connection == [open |-> TRUE, close_calls |-> 0, executed |-> <<>>, users |-> {}]

\* the process when the module starts to load: nothing read, nothing probed
BootStart(env) ==
    [phase |-> "init_validate",  \* position from module load to mcp.run
     caller |-> "module",        \* who called initialize_connection_config: line 88 or main()
     env |-> env,                \* os.environ
     probe_calls |-> 0,          \* calls of util.test_connection
     dialed |-> None,            \* the port given to psycopg2.connect by the probe
     pconn |-> None,             \* the probe's connection
     version |-> None,           \* the probe's local `version`
     probe |-> None,             \* what util.test_connection returned: success, message
     error |-> None,             \* the exception that ended the process
     transport |-> "none"]       \* the transport mcp.run was started with

\* the process once startup went through with ServedEnv and mcp.run serves tools
ServedBoot ==
    [BootStart(ServedEnv) EXCEPT
        !.phase = "serving", !.probe_calls = 1, !.dialed = Some(DefaultPort),
        !.pconn = Some([Connection EXCEPT !.open = FALSE, !.close_calls = 1,
                                          !.executed = <<VersionProbe>>]),
        !.version = Some("Redshift 1.0"),
        !.probe = Some([success |-> TRUE, message |-> <<"Redshift 1.0">>]),
        !.transport = "stdio"]

\* no call of get_error_detail is under way
NoDetailCall == [e |-> None, out |-> None]

\* the tools are called in a process whose startup has completed
Init ==
    /\ redshift_config = Some(Config)
    /\ now = 0
    /\ conns = <<>>
    /\ inv = [p \in Procs |-> IdleInv]
    /\ last_ts = None
    /\ boot = ServedBoot
    /\ detail_call = NoDetailCall

\* ---------------------------------------------------------------- helpers
Callable(p) ==
    /\ inv[p].pc \in {"idle", "done"}
    /\ IsSome(redshift_config)
    /\ boot.phase = "serving"

\* a new call forgets the connections of the caller's previous call
Forget(p) == [h \in {k \in DOMAIN conns : k[1] # p} |-> conns[h]]

\* faulty variant of NewHandle: one process-wide connection slot, so that an
\* invocation is handed the handle another invocation opened
NewHandle_Shared(p) == <<"t1", inv[p].opened + 1>>

\* the handle create_connection returns: a new connection of the calling
\* invocation, held in its local `conn` only
NewHandle(p) == <<p, inv[p].opened + 1>>

Opened(h) == [k \in DOMAIN conns \cup {h} |-> IF k = h THEN Connection ELSE conns[k]]

Raise(r, site, e) == [r EXCEPT !.exc = Some(e), !.faults = Append(@, <<site, e>>)]

\* create_connection(config): reading a field of an unset configuration raises
ConnectErrors == IF IsSome(redshift_config) THEN SiteErrors ELSE {AttributeError}

\* ------------------------------------------------------------ the clock
Tick ==
    /\ now < MaxTime
    /\ now' = now + 1
    /\ UNCHANGED <<redshift_config, conns, inv, last_ts, boot, detail_call>>

\* ----------------------------------------------------------- tool entries
run_query(p, text) ==
    /\ Callable(p)
    /\ inv' = [inv EXCEPT ![p] =
                 [IdleInv EXCEPT !.tool = "run_query", !.arg = text,
                                 !.query = text, !.submitted = <<text>>,
                                 !.pc = "eq_validate"]]
    /\ conns' = Forget(p)
    /\ UNCHANGED <<redshift_config, now, last_ts, boot, detail_call>>

\* faulty variant of explain_query: the text is stripped before it is prefixed
explain_query_Stripped(p, text) ==
    /\ Callable(p)
    /\ inv' = [inv EXCEPT ![p] =
                 [IdleInv EXCEPT !.tool = "explain_query", !.arg = text,
                                 !.query = ExplainPrefix \o strip(text),
                                 !.submitted = <<ExplainPrefix \o strip(text)>>,
                                 !.pc = "eq_validate"]]
    /\ conns' = Forget(p)
    /\ UNCHANGED <<redshift_config, now, last_ts, boot, detail_call>>

explain_query(p, text) ==
    /\ Callable(p)
    /\ inv' = [inv EXCEPT ![p] =
                 [IdleInv EXCEPT !.tool = "explain_query", !.arg = text,
                                 !.query = ExplainPrefix \o text,
                                 !.submitted = <<ExplainPrefix \o text>>,
                                 !.pc = "eq_validate"]]
    /\ conns' = Forget(p)
    /\ UNCHANGED <<redshift_config, now, last_ts, boot, detail_call>>

list_schemas(p) ==
    /\ Callable(p)
    /\ inv' = [inv EXCEPT ![p] =
                 [IdleInv EXCEPT !.tool = "list_schemas",
                                 !.query = ListSchemasQuery,
                                 !.submitted = <<ListSchemasQuery>>,
                                 !.pc = "eq_validate"]]
    /\ conns' = Forget(p)
    /\ UNCHANGED <<redshift_config, now, last_ts, boot, detail_call>>

\* faulty variant of list_tables_in_schema: the blank test comes after the
\* connection was requested
list_tables_in_schema_ConnectFirst(p, schema_name) ==
    /\ Callable(p)
    /\ inv' = [inv EXCEPT ![p] =
                 [IdleInv EXCEPT !.tool = "list_tables_in_schema", !.arg = schema_name,
                                 !.pc = "lt_connect"]]
    /\ conns' = Forget(p)
    /\ UNCHANGED <<redshift_config, now, last_ts, boot, detail_call>>

list_tables_in_schema(p, schema_name) ==
    /\ Callable(p)
    /\ inv' = [inv EXCEPT ![p] =
                 IF IsBlank(schema_name)
                 THEN [IdleInv EXCEPT !.tool = "list_tables_in_schema", !.arg = schema_name,
                                      !.errors = <<EmptySchemaMsg>>,
                                      !.exc = Some(ValueError(EmptySchemaMsg)),
                                      !.pc = "done"]
                 ELSE [IdleInv EXCEPT !.tool = "list_tables_in_schema", !.arg = schema_name,
                                      !.pc = "lt_connect"]]
    /\ conns' = Forget(p)
    /\ UNCHANGED <<redshift_config, now, last_ts, boot, detail_call>>

test_redshift_connection(p) ==
    /\ Callable(p)
    /\ inv' = [inv EXCEPT ![p] =
                 [IdleInv EXCEPT !.tool = "test_redshift_connection", !.pc = "tc_connect"]]
    /\ conns' = Forget(p)
    /\ UNCHANGED <<redshift_config, now, last_ts, boot, detail_call>>

\* ---------------------------------------------------------- execute_query
\* lines 125-128: the blank-input test, outside the try
EqValidate(p) ==
    /\ inv[p].pc = "eq_validate"
    /\ inv' = [inv EXCEPT ![p] =
                 IF IsBlank(@.query)
                 THEN [@ EXCEPT !.errors = Append(@, EmptyQueryMsg),
                                !.exc = Some(ValueError(EmptyQueryMsg)),
                                !.pc = "eq_exit"]
                 ELSE [@ EXCEPT !.pc = "eq_connect"]]
    /\ UNCHANGED <<redshift_config, now, conns, last_ts, boot, detail_call>>

\* faulty variant of EqConnect: a spare connection is opened and dropped before
\* the one that is used
EqConnect_SpareConnection(p) ==
    /\ inv[p].pc = "eq_connect"
    /\ \/ /\ IsSome(redshift_config)
          /\ LET spare == <<p, inv[p].opened + 1>>
                 used == <<p, inv[p].opened + 2>>
             IN  /\ conns' = [k \in DOMAIN conns \cup {spare, used} |->
                                 IF k \in {spare, used} THEN Connection ELSE conns[k]]
                 /\ inv' = [inv EXCEPT ![p] =
                              [@ EXCEPT !.start_time = now, !.create_calls = @ + 2,
                                        !.opened = @ + 2, !.conn = Some(used),
                                        !.pc = "eq_cursor"]]
       \/ \E e \in ConnectErrors :
             /\ inv' = [inv EXCEPT ![p] =
                          [Raise(@, "eq.create_connection", e) EXCEPT
                              !.start_time = now, !.create_calls = @ + 1,
                              !.pc = "eq_except"]]
             /\ UNCHANGED conns
    /\ UNCHANGED <<redshift_config, now, last_ts, boot, detail_call>>

\* lines 130-139: start_time = time.time(); conn = create_connection(config)
EqConnect(p) ==
    /\ inv[p].pc = "eq_connect"
    /\ \/ /\ IsSome(redshift_config)
          /\ conns' = Opened(NewHandle(p))
          /\ inv' = [inv EXCEPT ![p] =
                       [@ EXCEPT !.start_time = now, !.create_calls = @ + 1,
                                 !.opened = @ + 1, !.conn = Some(NewHandle(p)),
                                 !.pc = "eq_cursor"]]
       \/ \E e \in ConnectErrors :
             /\ inv' = [inv EXCEPT ![p] =
                          [Raise(@, "eq.create_connection", e) EXCEPT
                              !.start_time = now, !.create_calls = @ + 1,
                              !.pc = "eq_except"]]
             /\ UNCHANGED conns
    /\ UNCHANGED <<redshift_config, now, last_ts, boot, detail_call>>

\* line 143: with conn.cursor() as cursor (outside the inner try)
EqCursor(p) ==
    /\ inv[p].pc = "eq_cursor"
    /\ \/ inv' = [inv EXCEPT ![p].pc = "eq_execute"]
       \/ \E e \in SiteErrors :
             inv' = [inv EXCEPT ![p] = [Raise(@, "eq.cursor", e) EXCEPT !.pc = "eq_finally"]]
    /\ UNCHANGED <<redshift_config, now, conns, last_ts, boot, detail_call>>

\* where an exception raised inside the inner try goes: the psycopg2.Error
\* handler of line 174, or past it to the finally of line 184
InnerTryTarget(e) == IF IsPsycopg2Error(e) THEN "eq_dberror" ELSE "eq_finally"

\* lines 145-146: cursor.execute(query); the statement reaches the connection
\* whether or not the driver then raises
EqExecute(p) ==
    /\ inv[p].pc = "eq_execute"
    /\ conns' = [conns EXCEPT ![Get(inv[p].conn)].executed = Append(@, inv[p].query),
                              ![Get(inv[p].conn)].users = @ \cup {p}]
    /\ \/ \E description \in Descriptions :
             IF IsSome(description)
             THEN \E fetched \in Fetched(Len(Get(description))) :
                     inv' = [inv EXCEPT ![p] =
                               [@ EXCEPT !.cursor = [description |-> description,
                                                     fetched |-> fetched,
                                                     rowcount |-> Len(fetched)],
                                         !.pc = "eq_result"]]
             ELSE \E rowcount \in RowCounts :
                     inv' = [inv EXCEPT ![p] =
                               [@ EXCEPT !.cursor = [description |-> None,
                                                     fetched |-> <<>>,
                                                     rowcount |-> rowcount],
                                         !.pc = "eq_result"]]
       \/ \E e \in AllErrors :
             inv' = [inv EXCEPT ![p] =
                       [Raise(@, "eq.execute", e) EXCEPT !.pc = InnerTryTarget(e)]]
    /\ UNCHANGED <<redshift_config, now, last_ts, boot, detail_call>>

\* faulty variant of EqFormatResults: an error while reading is swallowed and
\* the rows formatted before it are returned
EqFormatResults_PartialRows(p) ==
    /\ inv[p].pc = "eq_result"
    /\ DescriptionTruthy(inv[p].cursor.description)
    /\ \/ LET formatted == format_query_results(Get(inv[p].cursor.description),
                                                inv[p].cursor.fetched)
          IN  inv' = [inv EXCEPT ![p] =
                        [@ EXCEPT !.result = Some(QueryResult(formatted[1], Some(formatted[2]),
                                                              None, now - inv[p].start_time)),
                                  !.pc = "eq_finally"]]
       \/ \E e \in AllErrors : \E k \in 0..(Len(inv[p].cursor.fetched) - 1) :
             LET formatted == format_query_results(Get(inv[p].cursor.description),
                                                   SubSeq(inv[p].cursor.fetched, 1, k))
             IN  inv' = [inv EXCEPT ![p] =
                           [@ EXCEPT !.faults = Append(@, <<"eq.fetchall", e>>),
                                     !.result = Some(QueryResult(formatted[1], Some(formatted[2]),
                                                                 None, now - inv[p].start_time)),
                                     !.pc = "eq_finally"]]
    /\ UNCHANGED <<redshift_config, now, conns, last_ts, boot, detail_call>>

\* lines 149-162: the row-producing branch; fetchall() inside
\* format_query_results may raise
EqFormatResults(p) ==
    /\ inv[p].pc = "eq_result"
    /\ DescriptionTruthy(inv[p].cursor.description)
    /\ \/ LET formatted == format_query_results(Get(inv[p].cursor.description),
                                                inv[p].cursor.fetched)
          IN  inv' = [inv EXCEPT ![p] =
                        [@ EXCEPT !.result = Some(QueryResult(formatted[1], Some(formatted[2]),
                                                              None, now - inv[p].start_time)),
                                  !.pc = "eq_finally"]]
       \/ \E e \in AllErrors :
             inv' = [inv EXCEPT ![p] =
                       [Raise(@, "eq.fetchall", e) EXCEPT !.pc = InnerTryTarget(e)]]
    /\ UNCHANGED <<redshift_config, now, conns, last_ts, boot, detail_call>>

\* faulty variant of EqAffectedRows: the count is returned without the one-row list
EqAffectedRows_NoRow(p) ==
    /\ inv[p].pc = "eq_result"
    /\ ~DescriptionTruthy(inv[p].cursor.description)
    /\ LET row_count == inv[p].cursor.rowcount
       IN  inv' = [inv EXCEPT ![p] =
                     [@ EXCEPT !.result = Some(QueryResult(<<>>, None, Some(row_count),
                                                           now - inv[p].start_time)),
                               !.pc = "eq_finally"]]
    /\ UNCHANGED <<redshift_config, now, conns, last_ts, boot, detail_call>>

\* lines 163-172: the row-affecting branch
EqAffectedRows(p) ==
    /\ inv[p].pc = "eq_result"
    /\ ~DescriptionTruthy(inv[p].cursor.description)
    /\ LET row_count == inv[p].cursor.rowcount
       IN  inv' = [inv EXCEPT ![p] =
                     [@ EXCEPT !.result = Some(QueryResult(<< <<<<"affected_rows", row_count>>>> >>,
                                                           None, Some(row_count),
                                                           now - inv[p].start_time)),
                               !.pc = "eq_finally"]]
    /\ UNCHANGED <<redshift_config, now, conns, last_ts, boot, detail_call>>

\* faulty variant of EqDbError: the ValueError carries the text given to ctx.error
EqDbError_RaiseErrorMsg(p) ==
    /\ inv[p].pc = "eq_dberror"
    /\ LET e == Get(inv[p].exc)
           error_detail == get_error_detail(e)
       IN  inv' = [inv EXCEPT ![p] =
                     IF error_detail.raises
                     THEN [@ EXCEPT !.exc = Some(AttributeError), !.pc = "eq_finally"]
                     ELSE [@ EXCEPT !.errors = Append(@, QueryFailedPrefix \o error_detail.value),
                                    !.exc = Some(ValueError(QueryFailedPrefix \o error_detail.value)),
                                    !.pc = "eq_finally"]]
    /\ UNCHANGED <<redshift_config, now, conns, last_ts, boot, detail_call>>

\* lines 174-183: except psycopg2.Error
EqDbError(p) ==
    /\ inv[p].pc = "eq_dberror"
    /\ LET e == Get(inv[p].exc)
           error_detail == get_error_detail(e)
       IN  inv' = [inv EXCEPT ![p] =
                     IF error_detail.raises
                     THEN [@ EXCEPT !.exc = Some(AttributeError), !.pc = "eq_finally"]
                     ELSE [@ EXCEPT !.errors = Append(@, QueryFailedPrefix \o error_detail.value),
                                    !.exc = Some(ValueError(<<e.cls, ": ">> \o error_detail.value)),
                                    !.pc = "eq_finally"]]
    /\ UNCHANGED <<redshift_config, now, conns, last_ts, boot, detail_call>>

\* faulty variant of EqFinally: close only when no exception is in flight
EqFinally_CloseOnSuccessOnly(p) ==
    /\ inv[p].pc = "eq_finally"
    /\ LET h == Get(inv[p].conn)
       IN  IF IsSome(inv[p].exc)
           THEN /\ inv' = [inv EXCEPT ![p].pc = "eq_except"]
                /\ UNCHANGED conns
           ELSE /\ conns' = [conns EXCEPT ![h].close_calls = @ + 1, ![h].users = @ \cup {p}, ![h].open = FALSE]
                /\ inv' = [inv EXCEPT ![p].pc = "eq_exit"]
    /\ UNCHANGED <<redshift_config, now, last_ts, boot, detail_call>>

\* lines 184-187: finally: conn.close(); an exception raised by close replaces
\* the return value or exception in flight
EqFinally(p) ==
    /\ inv[p].pc = "eq_finally"
    /\ LET h == Get(inv[p].conn)
       IN  \/ /\ conns' = [conns EXCEPT ![h].close_calls = @ + 1, ![h].users = @ \cup {p}, ![h].open = FALSE]
              /\ inv' = [inv EXCEPT ![p].pc = IF IsSome(inv[p].exc) THEN "eq_except" ELSE "eq_exit"]
           \/ \E e \in SiteErrors :
                 /\ conns' = [conns EXCEPT ![h].close_calls = @ + 1, ![h].users = @ \cup {p}]
                 /\ inv' = [inv EXCEPT ![p] =
                              [Raise(@, "eq.close", e) EXCEPT !.result = None, !.pc = "eq_except"]]
    /\ UNCHANGED <<redshift_config, now, last_ts, boot, detail_call>>

\* faulty variant of EqExcept: a bare re-raise of whatever arrived
EqExcept_Reraise(p) ==
    /\ inv[p].pc = "eq_except"
    /\ inv' = [inv EXCEPT ![p].pc = "eq_exit"]
    /\ UNCHANGED <<redshift_config, now, conns, last_ts, boot, detail_call>>

\* faulty variant of EqExcept: the wrapping message drops str(e)
EqExcept_NoDetail(p) ==
    /\ inv[p].pc = "eq_except"
    /\ LET e == Get(inv[p].exc)
           error_msg == ErrorDuringPrefix
       IN  inv' = [inv EXCEPT ![p] =
                     IF ~IsValueError(e)
                     THEN [@ EXCEPT !.errors = Append(@, error_msg),
                                    !.exc = Some(ValueError(error_msg)),
                                    !.pc = "eq_exit"]
                     ELSE [@ EXCEPT !.pc = "eq_exit"]]
    /\ UNCHANGED <<redshift_config, now, conns, last_ts, boot, detail_call>>

\* lines 189-194: except Exception: wrap unless already a ValueError
EqExcept(p) ==
    /\ inv[p].pc = "eq_except"
    /\ LET e == Get(inv[p].exc)
           error_msg == ErrorDuringPrefix \o e.str
       IN  inv' = [inv EXCEPT ![p] =
                     IF ~IsValueError(e)
                     THEN [@ EXCEPT !.errors = Append(@, error_msg),
                                    !.exc = Some(ValueError(error_msg)),
                                    !.pc = "eq_exit"]
                     ELSE [@ EXCEPT !.pc = "eq_exit"]]
    /\ UNCHANGED <<redshift_config, now, conns, last_ts, boot, detail_call>>

\* lines 232-233, 274-275, 391-392: result = execute_query(...); return result.rows
ReturnRows(p) ==
    /\ inv[p].pc = "eq_exit"
    /\ inv[p].tool \in {"run_query", "explain_query", "list_schemas"}
    /\ inv' = [inv EXCEPT ![p] =
                 IF IsSome(@.exc)
                 THEN [@ EXCEPT !.pc = "done"]
                 ELSE [@ EXCEPT !.rows_out = Some(Get(inv[p].result).rows), !.pc = "done"]]
    /\ UNCHANGED <<redshift_config, now, conns, last_ts, boot, detail_call>>

\* --------------------------------------------------- list_tables_in_schema
\* lines 332-337: conn = create_connection(config), inside try/except ValueError
LtConnect(p) ==
    /\ inv[p].pc = "lt_connect"
    /\ \/ /\ IsSome(redshift_config)
          /\ conns' = Opened(NewHandle(p))
          /\ inv' = [inv EXCEPT ![p] =
                       [@ EXCEPT !.create_calls = @ + 1, !.opened = @ + 1,
                                 !.tconn = Some(NewHandle(p)), !.pc = "lt_as_string"]]
       \/ \E e \in ConnectErrors :
             /\ inv' = [inv EXCEPT ![p] =
                          [Raise(@, "lt.create_connection", e) EXCEPT
                              !.create_calls = @ + 1, !.pc = "lt_except"]]
             /\ UNCHANGED conns
    /\ UNCHANGED <<redshift_config, now, last_ts, boot, detail_call>>

\* line 338: formatted_query = query.as_string(conn)
LtAsString(p) ==
    /\ inv[p].pc = "lt_as_string"
    /\ \/ inv' = [inv EXCEPT ![p] = [@ EXCEPT !.query = as_string(inv[p].arg), !.pc = "lt_close"]]
       \/ \E e \in SiteErrors :
             inv' = [inv EXCEPT ![p] = [Raise(@, "lt.as_string", e) EXCEPT !.pc = "lt_except"]]
    /\ UNCHANGED <<redshift_config, now, conns, last_ts, boot, detail_call>>

\* lines 339-341: conn.close(), then the call of execute_query(ctx, formatted_query)
LtClose(p) ==
    /\ inv[p].pc = "lt_close"
    /\ LET h == Get(inv[p].tconn)
       IN  \/ /\ conns' = [conns EXCEPT ![h].close_calls = @ + 1, ![h].users = @ \cup {p}, ![h].open = FALSE]
              /\ inv' = [inv EXCEPT ![p] =
                           [@ EXCEPT !.submitted = Append(@, inv[p].query),
                                     !.pc = "eq_validate"]]
           \/ \E e \in SiteErrors :
                 /\ conns' = [conns EXCEPT ![h].close_calls = @ + 1, ![h].users = @ \cup {p}]
                 /\ inv' = [inv EXCEPT ![p] = [Raise(@, "lt.close", e) EXCEPT !.pc = "lt_except"]]
    /\ UNCHANGED <<redshift_config, now, last_ts, boot, detail_call>>

\* lines 341-342: execute_query returned or raised inside the try
LtReturn(p) ==
    /\ inv[p].pc = "eq_exit"
    /\ inv[p].tool = "list_tables_in_schema"
    /\ inv' = [inv EXCEPT ![p] =
                 IF IsSome(@.exc)
                 THEN [@ EXCEPT !.pc = "lt_except"]
                 ELSE [@ EXCEPT !.rows_out = Some(Get(inv[p].result).rows), !.pc = "done"]]
    /\ UNCHANGED <<redshift_config, now, conns, last_ts, boot, detail_call>>

\* lines 343-347: except ValueError: re-raise with the schema name; any other
\* exception passes the handler unchanged
\* faulty variant of LtExcept: the new message leaves out the schema name
LtExcept_NoSchemaName(p) ==
    /\ inv[p].pc = "lt_except"
    /\ LET e == Get(inv[p].exc)
           error_msg == <<"Failed to list tables: ">> \o e.str
       IN  inv' = [inv EXCEPT ![p] =
                     IF IsValueError(e)
                     THEN [@ EXCEPT !.errors = Append(@, error_msg),
                                    !.exc = Some(ValueError(error_msg)),
                                    !.pc = "done"]
                     ELSE [@ EXCEPT !.pc = "done"]]
    /\ UNCHANGED <<redshift_config, now, conns, last_ts, boot, detail_call>>

LtExcept(p) ==
    /\ inv[p].pc = "lt_except"
    /\ LET e == Get(inv[p].exc)
           error_msg == <<"Failed to list tables in schema '">> \o inv[p].arg \o <<"': ">> \o e.str
       IN  inv' = [inv EXCEPT ![p] =
                     IF IsValueError(e)
                     THEN [@ EXCEPT !.errors = Append(@, error_msg),
                                    !.exc = Some(ValueError(error_msg)),
                                    !.pc = "done"]
                     ELSE [@ EXCEPT !.pc = "done"]]
    /\ UNCHANGED <<redshift_config, now, conns, last_ts, boot, detail_call>>

\* ------------------------------------------------ test_redshift_connection
StatusSuccess(version, timestamp) ==
    [status |-> "success", version |-> Some(version), connected |-> TRUE,
     timestamp |-> Some(timestamp), message |-> None]

\* faulty variant of StatusError: the error dict also carries a timestamp
StatusError_Stamped(error_msg) ==
    [status |-> "error", message |-> Some(error_msg), connected |-> FALSE,
     version |-> None, timestamp |-> Some(now)]

StatusError(error_msg) ==
    [status |-> "error", message |-> Some(error_msg), connected |-> FALSE,
     version |-> None, timestamp |-> None]

\* lines 431-436: conn = create_connection(config)
TcConnect(p) ==
    /\ inv[p].pc = "tc_connect"
    /\ \/ /\ IsSome(redshift_config)
          /\ conns' = Opened(NewHandle(p))
          /\ inv' = [inv EXCEPT ![p] =
                       [@ EXCEPT !.create_calls = @ + 1, !.opened = @ + 1,
                                 !.tconn = Some(NewHandle(p)), !.pc = "tc_probe"]]
       \/ \E e \in ConnectErrors :
             /\ inv' = [inv EXCEPT ![p] =
                          [Raise(@, "tc.create_connection", e) EXCEPT
                              !.create_calls = @ + 1, !.pc = "tc_except"]]
             /\ UNCHANGED conns
    /\ UNCHANGED <<redshift_config, now, last_ts, boot, detail_call>>

\* lines 438-449: the version probe and the success dict; conn.cursor() may
\* raise before the statement is sent, execute or fetchone()[0] after
TcProbe(p) ==
    /\ inv[p].pc = "tc_probe"
    /\ LET h == Get(inv[p].tconn)
           sent == [conns EXCEPT ![h].executed = Append(@, VersionProbe),
                                 ![h].users = @ \cup {p}]
       IN  \/ \E version \in Versions :
                 /\ conns' = sent
                 /\ inv' = [inv EXCEPT ![p] =
                              [@ EXCEPT !.status_out = Some(StatusSuccess(version, now)),
                                        !.pc = "tc_finally"]]
           \/ \E e \in SiteErrors :
                 /\ conns' \in {conns, sent}
                 /\ inv' = [inv EXCEPT ![p] = [Raise(@, "tc.probe", e) EXCEPT !.pc = "tc_finally"]]
    /\ UNCHANGED <<redshift_config, now, last_ts, boot, detail_call>>

\* lines 450-452: finally: conn.close()
TcFinally(p) ==
    /\ inv[p].pc = "tc_finally"
    /\ LET h == Get(inv[p].tconn)
       IN  \/ /\ conns' = [conns EXCEPT ![h].close_calls = @ + 1, ![h].users = @ \cup {p}, ![h].open = FALSE]
              /\ IF IsSome(inv[p].exc)
                 THEN /\ inv' = [inv EXCEPT ![p].pc = "tc_except"]
                      /\ UNCHANGED last_ts
                 ELSE /\ inv' = [inv EXCEPT ![p] = [@ EXCEPT !.prev_ts = last_ts, !.pc = "done"]]
                      /\ last_ts' = Get(inv[p].status_out).timestamp
           \/ \E e \in SiteErrors :
                 /\ conns' = [conns EXCEPT ![h].close_calls = @ + 1, ![h].users = @ \cup {p}]
                 /\ inv' = [inv EXCEPT ![p] =
                              [Raise(@, "tc.close", e) EXCEPT !.status_out = None, !.pc = "tc_except"]]
                 /\ UNCHANGED last_ts
    /\ UNCHANGED <<redshift_config, now, boot, detail_call>>

\* faulty variant of TcExcept: only driver errors are caught (except psycopg2.Error)
TcExcept_DriverErrorsOnly(p) ==
    /\ inv[p].pc = "tc_except"
    /\ LET e == Get(inv[p].exc)
           error_msg == ConnectionTestFailedPrefix \o e.str
       IN  inv' = [inv EXCEPT ![p] =
                     IF IsPsycopg2Error(e)
                     THEN [@ EXCEPT !.errors = Append(@, error_msg),
                                    !.exc = None,
                                    !.status_out = Some(StatusError(error_msg)),
                                    !.pc = "done"]
                     ELSE [@ EXCEPT !.pc = "done"]]
    /\ UNCHANGED <<redshift_config, now, conns, last_ts, boot, detail_call>>

\* lines 454-457: except Exception: report and return the error dict
TcExcept(p) ==
    /\ inv[p].pc = "tc_except"
    /\ LET e == Get(inv[p].exc)
           error_msg == ConnectionTestFailedPrefix \o e.str
       IN  inv' = [inv EXCEPT ![p] =
                     [@ EXCEPT !.errors = Append(@, error_msg),
                               !.exc = None,
                               !.status_out = Some(StatusError(error_msg)),
                               !.pc = "done"]]
    /\ UNCHANGED <<redshift_config, now, conns, last_ts, boot, detail_call>>

\* ----------------------------------------------------------------- startup
\* faulty variant of initialize_connection_config: any() in place of all()
initialize_connection_config_AnyParameter ==
    /\ boot.phase = "init_validate"
    /\ IF \E name \in Required : EnvTruthy(boot.env[name])
       THEN boot' = [boot EXCEPT !.probe_calls = @ + 1, !.phase = "probe_connect"]
       ELSE boot' = [boot EXCEPT !.error = Some(ValueError(MissingParametersMsg)),
                                 !.phase = "fatal"]
    /\ UNCHANGED <<redshift_config, now, conns, inv, last_ts, detail_call>>

\* lines 49-64 of server.py: read the environment, refuse a missing parameter
initialize_connection_config ==
    /\ boot.phase = "init_validate"
    /\ IF \A name \in Required : EnvTruthy(boot.env[name])
       THEN boot' = [boot EXCEPT !.probe_calls = @ + 1, !.phase = "probe_connect"]
       ELSE boot' = [boot EXCEPT !.error = Some(ValueError(MissingParametersMsg)),
                                 !.phase = "fatal"]
    /\ UNCHANGED <<redshift_config, now, conns, inv, last_ts, detail_call>>

\* what util.test_connection returns from its `except Exception` (util.py:45-46)
ProbeFailure(e) == Some([success |-> FALSE, message |-> e.str])

\* util.py:29-37: psycopg2.connect(..., port=int(port), ...) inside the try
TestConnectionConnect ==
    /\ boot.phase = "probe_connect"
    /\ LET port == int(PortOf(boot.env))
       IN  IF port.raises
           THEN boot' = [boot EXCEPT !.probe = ProbeFailure(Get(port.exc)),
                                     !.phase = "init_result"]
           ELSE \/ boot' = [boot EXCEPT !.dialed = Some(port.value),
                                        !.pconn = Some(Connection),
                                        !.phase = "probe_statement"]
                \/ \E e \in SiteErrors :
                      boot' = [boot EXCEPT !.dialed = Some(port.value),
                                           !.probe = ProbeFailure(e),
                                           !.phase = "init_result"]
    /\ UNCHANGED <<redshift_config, now, conns, inv, last_ts, detail_call>>

\* util.py:39-41: the version statement; when it raises, control goes to the
\* handler and conn.close() at line 43 is not reached
TestConnectionProbe ==
    /\ boot.phase = "probe_statement"
    /\ LET sent == [Get(boot.pconn) EXCEPT !.executed = Append(@, VersionProbe)]
       IN  \/ \E version \in Versions :
                 boot' = [boot EXCEPT !.pconn = Some(sent), !.version = Some(version),
                                      !.phase = "probe_close"]
           \/ \E e \in SiteErrors : \E c \in {Get(boot.pconn), sent} :
                 boot' = [boot EXCEPT !.pconn = Some(c), !.probe = ProbeFailure(e),
                                      !.phase = "init_result"]
    /\ UNCHANGED <<redshift_config, now, conns, inv, last_ts, detail_call>>

\* util.py:43-44: conn.close(); return True, version
TestConnectionClose ==
    /\ boot.phase = "probe_close"
    /\ LET c == Get(boot.pconn)
       IN  \/ boot' = [boot EXCEPT
                         !.pconn = Some([c EXCEPT !.close_calls = @ + 1, !.open = FALSE]),
                         !.probe = Some([success |-> TRUE,
                                         message |-> <<Get(boot.version)>>]),
                         !.phase = "init_result"]
           \/ \E e \in SiteErrors :
                 boot' = [boot EXCEPT
                            !.pconn = Some([c EXCEPT !.close_calls = @ + 1]),
                            !.probe = ProbeFailure(e),
                            !.phase = "init_result"]
    /\ UNCHANGED <<redshift_config, now, conns, inv, last_ts, detail_call>>

\* faulty variant of InitializeResult: a failed probe is logged and startup goes on
InitializeResult_ProbeIgnored ==
    /\ boot.phase = "init_result"
    /\ boot' = [boot EXCEPT !.phase = IF boot.caller = "module" THEN "loaded" ELSE "main_run"]
    /\ redshift_config' = Some(ConfigFrom(boot.env))
    /\ UNCHANGED <<now, conns, inv, last_ts, detail_call>>

\* lines 67-85 of server.py: a failed probe raises ConnectionError, a good one
\* sets the process-wide configuration
InitializeResult ==
    /\ boot.phase = "init_result"
    /\ LET probe == Get(boot.probe)
       IN  IF ~probe.success
           THEN /\ boot' = [boot EXCEPT
                              !.error = Some(ConnectionError(
                                            ConnectionTestFailedAtStartupPrefix \o probe.message)),
                              !.phase = "fatal"]
                /\ UNCHANGED redshift_config
           ELSE /\ boot' = [boot EXCEPT
                              !.phase = IF boot.caller = "module" THEN "loaded" ELSE "main_run"]
                /\ redshift_config' = Some(ConfigFrom(boot.env))
    /\ UNCHANGED <<now, conns, inv, last_ts, detail_call>>

\* lines 460-475: main() runs once the module has loaded; it initializes again
\* only when the configuration is still unset
main ==
    /\ boot.phase = "loaded"
    /\ boot' = IF IsNone(redshift_config)
               THEN [boot EXCEPT !.caller = "main", !.phase = "init_validate"]
               ELSE [boot EXCEPT !.phase = "main_run"]
    /\ UNCHANGED <<redshift_config, now, conns, inv, last_ts, detail_call>>

\* lines 478-484: mcp.run(transport='sse') with --sse, mcp.run() without
McpRun ==
    /\ boot.phase = "main_run"
    /\ \E sse \in BOOLEAN :
          boot' = [boot EXCEPT !.transport = IF sse THEN "sse" ELSE "stdio",
                               !.phase = "serving"]
    /\ UNCHANGED <<redshift_config, now, conns, inv, last_ts, detail_call>>

\* the process from the start of the module load, in every environment
InitBoot ==
    /\ redshift_config = None
    /\ now = 0
    /\ conns = <<>>
    /\ inv = [p \in Procs |-> IdleInv]
    /\ last_ts = None
    /\ boot \in {BootStart(env) : env \in Envs}
    /\ detail_call = NoDetailCall

NextBoot ==
    \/ initialize_connection_config
    \/ TestConnectionConnect
    \/ TestConnectionProbe
    \/ TestConnectionClose
    \/ InitializeResult
    \/ main
    \/ McpRun

SpecBoot == InitBoot /\ [][NextBoot]_vars

\* ---------------------------------------------------------- specification
Next ==
    \/ Tick
    \/ \E p \in DOMAIN inv : \E text \in Texts : run_query(p, text)
    \/ \E p \in DOMAIN inv : \E text \in Texts : explain_query(p, text)
    \/ \E p \in DOMAIN inv : list_schemas(p)
    \/ \E p \in DOMAIN inv : \E schema_name \in Texts : list_tables_in_schema(p, schema_name)
    \/ \E p \in DOMAIN inv : test_redshift_connection(p)
    \/ \E p \in DOMAIN inv : EqValidate(p)
    \/ \E p \in DOMAIN inv : EqConnect(p)
    \/ \E p \in DOMAIN inv : EqCursor(p)
    \/ \E p \in DOMAIN inv : EqExecute(p)
    \/ \E p \in DOMAIN inv : EqFormatResults(p)
    \/ \E p \in DOMAIN inv : EqAffectedRows(p)
    \/ \E p \in DOMAIN inv : EqDbError(p)
    \/ \E p \in DOMAIN inv : EqFinally(p)
    \/ \E p \in DOMAIN inv : EqExcept(p)
    \/ \E p \in DOMAIN inv : ReturnRows(p)
    \/ \E p \in DOMAIN inv : LtConnect(p)
    \/ \E p \in DOMAIN inv : LtAsString(p)
    \/ \E p \in DOMAIN inv : LtClose(p)
    \/ \E p \in DOMAIN inv : LtReturn(p)
    \/ \E p \in DOMAIN inv : LtExcept(p)
    \/ \E p \in DOMAIN inv : TcConnect(p)
    \/ \E p \in DOMAIN inv : TcProbe(p)
    \/ \E p \in DOMAIN inv : TcFinally(p)
    \/ \E p \in DOMAIN inv : TcExcept(p)

Spec == Init /\ [][Next]_vars

\* ------------------------------------------------------- get_error_detail
\* the values the attribute pgerror can have: absent, null, "" or a server message
PgerrorValues ==
    {None, Some(None), Some(Some(<<>>)),
     Some(Some(<<"ERROR: syntax error">>)), Some(Some(<<"ERROR: denied">>))}

\* the values the attribute diag can have: absent, null, an object without
\* message_detail, or an object whose message_detail is null, "" or a text
DiagValues ==
    {None, Some(None), Some(Some(None)), Some(Some(Some(None)))}
    \cup {Some(Some(Some(Some(t)))) : t \in {<<>>, <<"Key exists.">>, <<"Row locked.">>}}

\* the exceptions get_error_detail(e: Exception) can be given
DetailInputs ==
    {[cls |-> "Error", base |-> base, str |-> text, pgerror |-> pgerror, diag |-> diag] :
        base \in {"psycopg2.Error", "Exception"}, text \in {<<>>, <<"boom">>},
        pgerror \in PgerrorValues, diag \in DiagValues}

InitDetail ==
    /\ redshift_config = Some(Config)
    /\ now = 0
    /\ conns = <<>>
    /\ inv = [p \in Procs |-> IdleInv]
    /\ last_ts = None
    /\ boot = ServedBoot
    /\ detail_call \in {[e |-> Some(e), out |-> None] : e \in DetailInputs}

\* util.py:107-121: one call of get_error_detail on the given exception
GetErrorDetail ==
    /\ IsSome(detail_call.e)
    /\ IsNone(detail_call.out)
    /\ detail_call' = [detail_call EXCEPT !.out = Some(get_error_detail(Get(detail_call.e)))]
    /\ UNCHANGED <<redshift_config, now, conns, inv, last_ts, boot>>

NextDetail == GetErrorDetail

SpecDetail == InitDetail /\ [][NextDetail]_vars

\* ------------------------------------------------- concurrent invocations
\* FastMCP serves each inbound request as its own invocation: two of them in
\* flight, their steps interleaved in any order
ConcProcs == {"t1", "t2"}

InitConc ==
    /\ redshift_config = Some(Config)
    /\ now = 0
    /\ conns = <<>>
    /\ inv = [p \in ConcProcs |-> IdleInv]
    /\ last_ts = None
    /\ boot = ServedBoot
    /\ detail_call = NoDetailCall

\* the driver outcomes followed when two invocations interleave: one text per
\* tool argument, at most one failing driver call per invocation and one error
\* for it, one row or one row count per statement; the clock stands still
ConcOutcome ==
    \A p \in DOMAIN inv :
        /\ inv[p].arg \in {<<>>, <<"a">>}
        /\ Len(inv[p].faults) <= 1
        /\ \A i \in 1..Len(inv[p].faults) : inv[p].faults[i][2].cls = "OperationalError"
        /\ IsSome(inv[p].cursor.description) =>
               /\ Len(Get(inv[p].cursor.description)) = 1
               /\ Len(inv[p].cursor.fetched) = 1
               /\ inv[p].cursor.fetched[1][1] = 1
        /\ inv[p].cursor.rowcount \in {-1, 1, 3}

NextConc ==
    \/ \E p \in DOMAIN inv : \E text \in Texts : run_query(p, text) /\ ConcOutcome'
    \/ \E p \in DOMAIN inv : \E text \in Texts : explain_query(p, text) /\ ConcOutcome'
    \/ \E p \in DOMAIN inv : list_schemas(p) /\ ConcOutcome'
    \/ \E p \in DOMAIN inv : \E schema_name \in Texts : list_tables_in_schema(p, schema_name) /\ ConcOutcome'
    \/ \E p \in DOMAIN inv : test_redshift_connection(p) /\ ConcOutcome'
    \/ \E p \in DOMAIN inv : EqValidate(p) /\ ConcOutcome'
    \/ \E p \in DOMAIN inv : EqConnect(p) /\ ConcOutcome'
    \/ \E p \in DOMAIN inv : EqCursor(p) /\ ConcOutcome'
    \/ \E p \in DOMAIN inv : EqExecute(p) /\ ConcOutcome'
    \/ \E p \in DOMAIN inv : EqFormatResults(p) /\ ConcOutcome'
    \/ \E p \in DOMAIN inv : EqAffectedRows(p) /\ ConcOutcome'
    \/ \E p \in DOMAIN inv : EqDbError(p) /\ ConcOutcome'
    \/ \E p \in DOMAIN inv : EqFinally(p) /\ ConcOutcome'
    \/ \E p \in DOMAIN inv : EqExcept(p) /\ ConcOutcome'
    \/ \E p \in DOMAIN inv : ReturnRows(p) /\ ConcOutcome'
    \/ \E p \in DOMAIN inv : LtConnect(p) /\ ConcOutcome'
    \/ \E p \in DOMAIN inv : LtAsString(p) /\ ConcOutcome'
    \/ \E p \in DOMAIN inv : LtClose(p) /\ ConcOutcome'
    \/ \E p \in DOMAIN inv : LtReturn(p) /\ ConcOutcome'
    \/ \E p \in DOMAIN inv : LtExcept(p) /\ ConcOutcome'
    \/ \E p \in DOMAIN inv : TcConnect(p) /\ ConcOutcome'
    \/ \E p \in DOMAIN inv : TcProbe(p) /\ ConcOutcome'
    \/ \E p \in DOMAIN inv : TcFinally(p) /\ ConcOutcome'
    \/ \E p \in DOMAIN inv : TcExcept(p) /\ ConcOutcome'

SpecConc == InitConc /\ [][NextConc]_vars

\* ================================================================= claims
\* execute_query has returned or raised: the tool that called it resumes
LeftExecuteQuery(p) == inv[p].pc = "eq_exit"

\* the exception some driver call raised at a site of this call, if it did
FaultAt(p, site) == \E i \in 1..Len(inv[p].faults) : inv[p].faults[i][1] = site
FaultOf(p, site) ==
    inv[p].faults[CHOOSE i \in 1..Len(inv[p].faults) : inv[p].faults[i][1] = site][2]

\* cursor.execute raised a driver error (a psycopg2.Error) in this call
ExecuteRaisedDriverError(p) ==
    FaultAt(p, "eq.execute") /\ IsPsycopg2Error(FaultOf(p, "eq.execute"))

\* the fixed fragments that contain the word "empty", compared case-insensitively
MentionsEmpty(msg) ==
    \E i \in 1..Len(msg) : msg[i] \in {"Empty query provided", "Empty schema name provided"}

\* C1: once execute_query has opened a connection, close is invoked on that
\* connection exactly once before the call returns or raises, on every exit
\* path: never before the finally clause, once from then on.
C1_CloseExactlyOnce ==
    \A p \in DOMAIN inv :
        IsSome(inv[p].conn) =>
            conns[Get(inv[p].conn)].close_calls =
                (IF inv[p].pc \in {"eq_except", "eq_exit", "lt_except", "done"} THEN 1 ELSE 0)

\* C1 witness: execute_query has raised after a driver error during execute,
\* and its connection was closed once
C1_Witness ==
    \E p \in DOMAIN inv :
        /\ LeftExecuteQuery(p)
        /\ IsSome(inv[p].conn)
        /\ ExecuteRaisedDriverError(p)
        /\ IsSome(inv[p].exc)
        /\ conns[Get(inv[p].conn)].close_calls = 1

\* C2 (as claimed): a run_query or explain_query call with an empty or
\* whitespace-only text never calls create_connection and ends by raising a
\* ValueError whose message contains "empty".
C2_BlankInputRejected ==
    \A p \in DOMAIN inv :
        (inv[p].tool \in {"run_query", "explain_query"} /\ IsBlank(inv[p].arg)) =>
            /\ inv[p].create_calls = 0
            /\ inv[p].pc = "done" =>
                  /\ IsSome(inv[p].exc)
                  /\ IsValueError(Get(inv[p].exc))
                  /\ MentionsEmpty(Get(inv[p].exc).str)

\* C3 (as claimed): a successful execute_query whose cursor has a column
\* descriptor returns column_names equal to the descriptor's names, no
\* affected_rows, one row per returned tuple, and every row's keys equal to
\* column_names in order - for every descriptor, repeated names included.
C3_RowsMatchColumns ==
    \A p \in DOMAIN inv :
        (LeftExecuteQuery(p) /\ IsSome(inv[p].result)
            /\ DescriptionTruthy(inv[p].cursor.description)) =>
            LET result == Get(inv[p].result)
                description == Get(inv[p].cursor.description)
            IN  /\ IsSome(result.column_names)
                /\ Get(result.column_names) = [i \in 1..Len(description) |-> description[i][1]]
                /\ IsNone(result.affected_rows)
                /\ Len(result.rows) = Len(inv[p].cursor.fetched)
                /\ \A r \in 1..Len(result.rows) : Keys(result.rows[r]) = Get(result.column_names)

\* C4: a successful execute_query whose cursor has no column descriptor returns
\* exactly rows = [{"affected_rows": N}], affected_rows = N and no column_names,
\* N being the driver's rowcount; and every successful result has exactly one of
\* column_names and affected_rows.
C4_AffectedRowsShape ==
    \A p \in DOMAIN inv :
        (LeftExecuteQuery(p) /\ IsSome(inv[p].result)) =>
            LET result == Get(inv[p].result)
                N == inv[p].cursor.rowcount
            IN  /\ (~DescriptionTruthy(inv[p].cursor.description)) =>
                      /\ result.rows = << << <<"affected_rows", N>> >> >>
                      /\ result.affected_rows = Some(N)
                      /\ IsNone(result.column_names)
                /\ IsSome(result.column_names) # IsSome(result.affected_rows)

\* C4 witness: execute_query returned for a statement without descriptor whose
\* rowcount was 3
C4_Witness ==
    \E p \in DOMAIN inv :
        /\ LeftExecuteQuery(p)
        /\ IsSome(inv[p].result)
        /\ IsNone(inv[p].cursor.description)
        /\ inv[p].cursor.rowcount = 3
        /\ Get(inv[p].result).affected_rows = Some(3)

\* C5: every exception that leaves execute_query is a ValueError, whichever
\* driver call raised: create_connection, cursor, execute, fetchall or close.
C5_OnlyValueErrorLeaves ==
    \A p \in DOMAIN inv :
        (LeftExecuteQuery(p) /\ IsSome(inv[p].exc)) => IsValueError(Get(inv[p].exc))

\* C5 witness: close raised a driver error and execute_query raised a ValueError
C5_Witness ==
    \E p \in DOMAIN inv :
        /\ LeftExecuteQuery(p)
        /\ FaultAt(p, "eq.close")
        /\ IsPsycopg2Error(FaultOf(p, "eq.close"))
        /\ IsSome(inv[p].exc)
        /\ IsValueError(Get(inv[p].exc))

\* C6 (as claimed): whatever fails inside run_query, explain_query, list_schemas
\* or list_tables_in_schema, the exception the tool raises is a ValueError.
C6_ToolsRaiseOnlyValueError ==
    \A p \in DOMAIN inv :
        (inv[p].pc = "done" /\ IsSome(inv[p].exc)
            /\ inv[p].tool \in {"run_query", "explain_query", "list_schemas",
                                "list_tables_in_schema"}) =>
            IsValueError(Get(inv[p].exc))

\* C7 (as claimed): after a driver error during execute, the exception leaving
\* execute_query has the message "Query execution failed: " + detail.
C7_MessageIsQueryFailed ==
    \A p \in DOMAIN inv :
        (LeftExecuteQuery(p) /\ ExecuteRaisedDriverError(p)) =>
            /\ IsSome(inv[p].exc)
            /\ Get(inv[p].exc).str =
                  QueryFailedPrefix \o get_error_detail(FaultOf(p, "eq.execute")).value

\* the exception execute_query raises when close raised e: wrapped by the outer
\* handler unless e is a ValueError already
AfterCloseError(e) ==
    IF IsValueError(e) THEN e ELSE ValueError(ErrorDuringPrefix \o e.str)

\* C7 (amended): after a driver error e during execute, "Query execution
\* failed: " + detail is the text given to ctx.error, and the ValueError raised
\* for it has the message e's class name + ": " + detail; that ValueError leaves
\* execute_query unless close then raises, in which case the close error leaves
\* (wrapped by the outer handler).
C7_MessageIsClassAndDetail ==
    \A p \in DOMAIN inv :
        (LeftExecuteQuery(p) /\ ExecuteRaisedDriverError(p)) =>
            LET e == FaultOf(p, "eq.execute")
                detail == get_error_detail(e).value
            IN  /\ Len(inv[p].errors) >= 1
                /\ inv[p].errors[1] = QueryFailedPrefix \o detail
                /\ inv[p].exc =
                      IF FaultAt(p, "eq.close")
                      THEN Some(AfterCloseError(FaultOf(p, "eq.close")))
                      ELSE Some(ValueError(<<e.cls, ": ">> \o detail))

\* C7 witness: execute raised a ProgrammingError carrying a server message,
\* close succeeded, and execute_query raised "ProgrammingError: " + that message
C7_Witness ==
    \E p \in DOMAIN inv :
        /\ LeftExecuteQuery(p)
        /\ ExecuteRaisedDriverError(p)
        /\ ~FaultAt(p, "eq.close")
        /\ inv[p].exc = Some(ValueError(<<"ProgrammingError", ": ", "ERROR: syntax error">>))

\* C8 (as claimed): after a driver error during execute, the exception leaving
\* execute_query is a ValueError whose message contains the error's class name
\* and the normalized detail, and ctx.error was called exactly once.
C8_ClassDetailAndOneReport ==
    \A p \in DOMAIN inv :
        (LeftExecuteQuery(p) /\ ExecuteRaisedDriverError(p)) =>
            LET e == FaultOf(p, "eq.execute")
            IN  /\ IsSome(inv[p].exc)
                /\ IsValueError(Get(inv[p].exc))
                /\ Contains(Get(inv[p].exc).str, <<e.cls>>)
                /\ Contains(Get(inv[p].exc).str, get_error_detail(e).value)
                /\ Len(inv[p].errors) = 1

\* the connections the invocation p opened in its current call
HandlesOf(p) == {h \in DOMAIN conns : h[1] = p}

\* C9: when create_connection fails in execute_query, the call raises a
\* ValueError whose message embeds the failure's text, having obtained no
\* handle: it has executed no statement and invoked no close (the only handle
\* the call can own is the one list_tables_in_schema closed before delegating).
C9_ConnectFailure ==
    \A p \in DOMAIN inv :
        (LeftExecuteQuery(p) /\ FaultAt(p, "eq.create_connection")) =>
            LET e == FaultOf(p, "eq.create_connection")
            IN  /\ IsSome(inv[p].exc)
                /\ IsValueError(Get(inv[p].exc))
                /\ Contains(Get(inv[p].exc).str, e.str)
                /\ IsNone(inv[p].conn)
                /\ IsNone(inv[p].result)
                /\ \A h \in HandlesOf(p) :
                      /\ conns[h].executed = <<>>
                      /\ inv[p].tconn = Some(h)
                      /\ conns[h].close_calls = 1

\* C9 witness: run_query's execute_query has raised after create_connection
\* raised an OperationalError
C9_Witness ==
    \E p \in DOMAIN inv :
        /\ LeftExecuteQuery(p)
        /\ inv[p].tool = "run_query"
        /\ FaultAt(p, "eq.create_connection")
        /\ FaultOf(p, "eq.create_connection").cls = "OperationalError"
        /\ inv[p].exc = Some(ValueError(ErrorDuringPrefix \o <<"connection refused">>))

\* C10: test_redshift_connection never raises; it returns status "success" with
\* connected true when connect, probe and close all succeeded and status
\* "error" with connected false when any of the three raised; and a successful
\* call's timestamp is not below that of the successful call before it.
C10_TestConnectionNeverRaises ==
    \A p \in DOMAIN inv :
        (inv[p].pc = "done" /\ inv[p].tool = "test_redshift_connection") =>
            /\ IsNone(inv[p].exc)
            /\ IsSome(inv[p].status_out)
            /\ LET status == Get(inv[p].status_out)
               IN  /\ (inv[p].faults = <<>>) =>
                          /\ status.status = "success"
                          /\ status.connected = TRUE
                          /\ IsSome(status.timestamp)
                          /\ IsSome(inv[p].prev_ts) => Get(inv[p].prev_ts) <= Get(status.timestamp)
                   /\ (inv[p].faults # <<>>) =>
                          /\ status.status = "error"
                          /\ status.connected = FALSE

\* C10 witness: a successful call that follows an earlier successful call
C10_Witness ==
    \E p \in DOMAIN inv :
        /\ inv[p].pc = "done"
        /\ inv[p].tool = "test_redshift_connection"
        /\ inv[p].faults = <<>>
        /\ IsSome(inv[p].prev_ts)
        /\ Get(inv[p].status_out).status = "success"

C12_BlankSchemaRejected ==
    \A p \in DOMAIN inv :
        (inv[p].tool = "list_tables_in_schema" /\ IsBlank(inv[p].arg)) =>
            /\ inv[p].pc = "done"
            /\ inv[p].create_calls = 0
            /\ HandlesOf(p) = {}
            /\ inv[p].submitted = <<>>
            /\ IsSome(inv[p].exc)
            /\ IsValueError(Get(inv[p].exc))
            /\ Get(inv[p].exc).str = EmptySchemaMsg
            /\ MentionsEmpty(Get(inv[p].exc).str)
            /\ Len(inv[p].errors) = 1

\* C12 witness: list_tables_in_schema(" ") has raised
C12_Witness ==
    \E p \in DOMAIN inv :
        /\ inv[p].tool = "list_tables_in_schema"
        /\ inv[p].arg = <<" ">>
        /\ inv[p].pc = "done"
        /\ IsSome(inv[p].exc)

\* execute_query was called by list_tables_in_schema and raised: the exception
\* in flight at the handler is the delegate's
DelegateFailed(p) ==
    /\ inv[p].tool = "list_tables_in_schema"
    /\ inv[p].pc = "lt_except"
    /\ Len(inv[p].submitted) = 1

\* C13: when execute_query fails inside list_tables_in_schema, the step through
\* the handler raises a ValueError whose message contains the schema name and
\* the message of the exception execute_query raised.
C13_DelegateFailureRewrapped ==
    [][\A p \in DOMAIN inv :
          (DelegateFailed(p) /\ inv'[p].pc = "done") =>
              /\ ~IsBlank(inv[p].arg)
              /\ IsSome(inv'[p].exc)
              /\ IsValueError(Get(inv'[p].exc))
              /\ Contains(Get(inv'[p].exc).str, inv[p].arg)
              /\ Contains(Get(inv'[p].exc).str, Get(inv[p].exc).str)]_vars

\* C13 witness: execute raised inside the delegate and list_tables_in_schema("a")
\* has raised a message naming the schema and the driver's server message
C13_Witness ==
    \E p \in DOMAIN inv :
        /\ inv[p].tool = "list_tables_in_schema"
        /\ inv[p].pc = "done"
        /\ inv[p].arg = <<"a">>
        /\ ExecuteRaisedDriverError(p)
        /\ ~FaultAt(p, "eq.close")
        /\ inv[p].exc = Some(ValueError(<<"Failed to list tables in schema '", "a", "': ",
                                          "ProgrammingError", ": ", "ERROR: syntax error">>))

\* the call has passed the blank test that stands before its first
\* create_connection: list_tables_in_schema's own, execute_query's for the
\* tools that call it first, none for test_redshift_connection
Validated(p) ==
    CASE inv[p].tool = "list_tables_in_schema" -> ~IsBlank(inv[p].arg)
      [] inv[p].tool \in {"run_query", "explain_query", "list_schemas"} ->
             ~IsBlank(inv[p].submitted[1])
      [] inv[p].tool = "test_redshift_connection" -> TRUE
      [] OTHER -> FALSE

\* C14 (as claimed): a tool call that passed its input validation has called
\* create_connection exactly once when it returns or raises, the calls of the
\* tool and of the execute_query it delegates to counted together.
C14_OneCreateConnectionPerCall ==
    \A p \in DOMAIN inv :
        (inv[p].pc = "done" /\ Validated(p)) => inv[p].create_calls = 1

\* C14 (amended): a validated call of run_query, explain_query, list_schemas or
\* test_redshift_connection calls create_connection exactly once;
\* list_tables_in_schema calls it once to render its statement and, when
\* rendering and closing succeeded and execute_query was called, execute_query
\* calls it a second time: two calls in all, one when the call ended earlier.
C14_OneCreateConnectionPerExecutor ==
    \A p \in DOMAIN inv :
        (inv[p].pc = "done" /\ Validated(p)) =>
            inv[p].create_calls =
                (IF inv[p].tool = "list_tables_in_schema" /\ inv[p].submitted # <<>>
                 THEN 2 ELSE 1)

\* C14 witness: list_tables_in_schema("a") returned rows after two calls of
\* create_connection, and both handles were closed
C14_Witness ==
    \E p \in DOMAIN inv :
        /\ inv[p].pc = "done"
        /\ inv[p].tool = "list_tables_in_schema"
        /\ inv[p].arg = <<"a">>
        /\ IsSome(inv[p].rows_out)
        /\ inv[p].create_calls = 2
        /\ Cardinality(HandlesOf(p)) = 2

\* C15 (as claimed): when list_tables_in_schema or test_redshift_connection
\* returns or raises, close was invoked on every connection the call opened.
C15_OwnConnectionsClosed ==
    \A p \in DOMAIN inv :
        (inv[p].pc = "done"
            /\ inv[p].tool \in {"list_tables_in_schema", "test_redshift_connection"}) =>
            \A h \in HandlesOf(p) : conns[h].close_calls >= 1

\* C18: explain_query(text) calls execute_query exactly once, with "EXPLAIN "
\* followed by text unchanged; no other statement reaches the connection; and
\* the rows it returns are the rows of the QueryResult execute_query returned.
C18_ExplainPrefixesAndDelegates ==
    \A p \in DOMAIN inv :
        (inv[p].tool = "explain_query") =>
            /\ inv[p].submitted = <<ExplainPrefix \o inv[p].arg>>
            /\ inv[p].query = ExplainPrefix \o inv[p].arg
            /\ \A h \in HandlesOf(p) :
                  conns[h].executed \in {<<>>, <<ExplainPrefix \o inv[p].arg>>}
            /\ (inv[p].pc = "done") =>
                  IF IsSome(inv[p].exc)
                  THEN IsNone(inv[p].rows_out)
                  ELSE /\ IsSome(inv[p].result)
                       /\ inv[p].rows_out = Some(Get(inv[p].result).rows)

\* C18 witness: explain_query(" ") returned the one row of its delegate call,
\* whose statement was "EXPLAIN " followed by the blank
C18_Witness ==
    \E p \in DOMAIN inv :
        /\ inv[p].tool = "explain_query"
        /\ inv[p].pc = "done"
        /\ inv[p].arg = <<" ">>
        /\ IsSome(inv[p].rows_out)
        /\ Len(Get(inv[p].rows_out)) = 1
        /\ conns[Get(inv[p].conn)].executed = <<ExplainPrefix \o <<" ">> >>

\* one of host, database, user and password is unset or set to ""
MissingRequired(env) == \E name \in Required : ~EnvTruthy(env[name])

\* util.test_connection has returned (False, message)
ProbeFailed == IsSome(boot.probe) /\ ~Get(boot.probe).success

\* C16: when host, database, user or password is missing from the environment,
\* initialization ends in a fatal ValueError, util.test_connection was never
\* called and redshift_config is unset; when only the port is missing,
\* validation passes and the port dialed and configured is 5439.
C16_MissingParameterIsFatal ==
    /\ (MissingRequired(boot.env) /\ boot.phase # "init_validate") =>
          /\ boot.phase = "fatal"
          /\ boot.error = Some(ValueError(MissingParametersMsg))
          /\ boot.probe_calls = 0
          /\ IsNone(boot.dialed)
          /\ IsNone(boot.pconn)
          /\ IsNone(boot.probe)
          /\ IsNone(redshift_config)
    /\ (~MissingRequired(boot.env) /\ IsNone(boot.env.REDSHIFT_PORT)
            /\ boot.phase # "init_validate") =>
          /\ boot.probe_calls = 1
          /\ boot.error # Some(ValueError(MissingParametersMsg))
          /\ (boot.phase # "probe_connect") => boot.dialed = Some(5439)
          /\ IsSome(redshift_config) => Get(redshift_config).port = 5439

\* C16 witness: the password is unset, the port too; initialization has raised
\* the ValueError and the probe was not called
C16_Witness ==
    /\ boot.phase = "fatal"
    /\ boot.env.REDSHIFT_HOST = Some("h")
    /\ boot.env.REDSHIFT_PASSWORD = None
    /\ boot.env.REDSHIFT_PORT = None
    /\ Get(boot.error).cls = "ValueError"
    /\ boot.probe_calls = 0
    /\ IsNone(redshift_config)

\* C17: once util.test_connection has returned failure, initialization raises
\* ConnectionError with the probe's message and redshift_config stays unset;
\* mcp.run is started only after a successful probe with the configuration set
\* from the environment; and a process that died at startup never serves.
C17_FailedProbeNeverServes ==
    /\ [](/\ (ProbeFailed /\ boot.phase # "init_result") =>
                /\ boot.phase = "fatal"
                /\ Get(boot.error).cls = "ConnectionError"
                /\ Get(boot.error).str =
                      ConnectionTestFailedAtStartupPrefix \o Get(boot.probe).message
                /\ IsNone(redshift_config)
                /\ boot.transport = "none"
          /\ (boot.phase = "serving") =>
                /\ IsSome(boot.probe)
                /\ Get(boot.probe).success
                /\ boot.transport \in {"stdio", "sse"}
                /\ redshift_config = Some(ConfigFrom(boot.env))
          /\ (boot.phase = "fatal") =>
                /\ IsNone(redshift_config)
                /\ boot.transport = "none")
    /\ [][boot.phase = "fatal" => boot'.phase = "fatal"]_vars

\* C17 witness: the probe connected, its version statement raised, and
\* initialization has raised ConnectionError; the configuration is unset
C17_Witness ==
    /\ boot.phase = "fatal"
    /\ ProbeFailed
    /\ IsSome(boot.pconn)
    /\ Get(boot.error).cls = "ConnectionError"
    /\ IsNone(redshift_config)

\* the connections of invocation p that are open
OpenHandlesOf(p) == {h \in HandlesOf(p) : conns[h].open}

\* C19: with two invocations interleaved in any order, every connection has
\* been executed on and closed by no invocation but the one that opened it,
\* the handles an invocation holds are its own, no invocation has two
\* connections open at once, and no step changes redshift_config.
C19_ConnectionsNotShared ==
    /\ [](/\ \A h \in DOMAIN conns : conns[h].users \subseteq {h[1]}
          /\ \A p \in DOMAIN inv :
                /\ IsSome(inv[p].conn) => Get(inv[p].conn)[1] = p
                /\ IsSome(inv[p].tconn) => Get(inv[p].tconn)[1] = p
                /\ Cardinality(OpenHandlesOf(p)) <= 1)
    /\ [][redshift_config' = redshift_config]_vars

\* C19 witness: two invocations are in flight at once, each after executing
\* its statement on its own open connection
C19_Witness ==
    \E p, q \in DOMAIN inv :
        /\ p # q
        /\ inv[p].pc = "eq_result" /\ inv[q].pc = "eq_result"
        /\ conns[Get(inv[p].conn)].users = {p}
        /\ conns[Get(inv[q].conn)].users = {q}
        /\ conns[Get(inv[p].conn)].open /\ conns[Get(inv[q].conn)].open
        /\ Get(inv[p].conn) # Get(inv[q].conn)

\* the error carries a non-empty server message in pgerror
CarriesPgerror(e) ==
    IsSome(e.pgerror) /\ IsSome(Get(e.pgerror)) /\ Len(Get(Get(e.pgerror))) > 0

\* the error carries a diag object whose message_detail is a non-empty text
CarriesDetail(e) ==
    /\ IsSome(e.diag) /\ IsSome(Get(e.diag)) /\ IsSome(Get(Get(e.diag)))
    /\ IsSome(Get(Get(Get(e.diag))))
    /\ Len(Get(Get(Get(Get(e.diag))))) > 0

\* C20 (as claimed): for every error, get_error_detail returns pgerror when the
\* error carries a non-empty one, otherwise diag.message_detail when the error
\* carries a non-empty one, otherwise str(e).
C20_StrictPrecedence ==
    (IsSome(detail_call.e) /\ IsSome(detail_call.out)) =>
        LET e == Get(detail_call.e)
            out == Get(detail_call.out)
        IN  /\ ~out.raises
            /\ out.value =
                  IF CarriesPgerror(e) THEN Get(Get(e.pgerror))
                  ELSE IF CarriesDetail(e) THEN Get(Get(Get(Get(e.diag))))
                  ELSE e.str

\* C21 (as claimed): get_error_detail never raises: for every error value,
\* whichever of pgerror and diag are missing, null or empty, it returns a string.
C21_NeverRaises ==
    IsSome(detail_call.out) => ~Get(detail_call.out).raises

\* C22: a call through execute_query ends with a result or with an exception,
\* never both and never neither; a result over a column descriptor holds one
\* formatted row per tuple the cursor had, exactly as format_query_results
\* builds them; and after fetchall or the formatter raised, no result exists
\* and the tool returns no rows.
C22_AllOrNothing ==
    \A p \in DOMAIN inv :
        /\ LeftExecuteQuery(p) => (IsSome(inv[p].exc) # IsSome(inv[p].result))
        /\ (inv[p].pc \in {"eq_exit", "lt_except", "done"} /\ IsSome(inv[p].exc)) =>
              /\ IsNone(inv[p].result)
              /\ IsNone(inv[p].rows_out)
        /\ (inv[p].pc \in {"eq_exit", "done"} /\ IsSome(inv[p].result)
                /\ DescriptionTruthy(inv[p].cursor.description)) =>
              /\ Len(Get(inv[p].result).rows) = Len(inv[p].cursor.fetched)
              /\ Get(inv[p].result).rows =
                    format_query_results(Get(inv[p].cursor.description),
                                         inv[p].cursor.fetched)[1]
        /\ (inv[p].pc = "done" /\ IsSome(inv[p].rows_out)) =>
              /\ IsSome(inv[p].result)
              /\ Get(inv[p].rows_out) = Get(inv[p].result).rows
        /\ FaultAt(p, "eq.fetchall") => IsNone(inv[p].result)

\* C22 witness: the cursor had a tuple, fetchall raised, and run_query has
\* raised without rows
C22_Witness ==
    \E p \in DOMAIN inv :
        /\ inv[p].pc = "done"
        /\ inv[p].tool = "run_query"
        /\ FaultAt(p, "eq.fetchall")
        /\ Len(inv[p].cursor.fetched) >= 1
        /\ IsSome(inv[p].exc)
        /\ IsNone(inv[p].result)
        /\ IsNone(inv[p].rows_out)

\* C23 (as claimed): whenever execute_query raises, ctx.error was called
\* exactly once: for empty input, connection failure, a driver error during
\* execute and any other exception during execution, formatting or close, a
\* ValueError included.
C23_OneNotificationPerFailure ==
    \A p \in DOMAIN inv :
        (LeftExecuteQuery(p) /\ IsSome(inv[p].exc)) => Len(inv[p].errors) = 1

\* C24 (as claimed): util.test_connection returns (True, version) or
\* (False, message), and whenever its connect succeeded, close was invoked on
\* the connection before it returned, with a good and with a failing version
\* statement.
C24_ProbeClosesItsConnection ==
    IsSome(boot.probe) =>
        /\ Get(boot.probe).success => Get(boot.probe).message = <<Get(boot.version)>>
        /\ IsSome(boot.pconn) => Get(boot.pconn).close_calls = 1

====
